---- MODULE Spec2Model ----
(***************************************************************************)
(* A model of atflow/dataset.py: the batchify generator and the Dataset    *)
(* class (construction with its train/validation split, copy, statistics,  *)
(* normalize, minibatch and next_epoch).                                   *)
(*                                                                         *)
(* Arrays are modelled symbolically.  Sample indices are 0-based as in the *)
(* source; a numpy index array is the TLA+ sequence of its entries.        *)
(* An optional value (Python None or a value) is a sequence of length 0    *)
(* or 1.                                                                   *)
(***************************************************************************)
EXTENDS Integers, Sequences, FiniteSets, TLC

VARIABLES gen, args, dataset, copied, call, raised, served, ret, rng, seed, built, multi

vars == <<gen, args, dataset, copied, call, raised, served, ret, rng, seed, built, multi>>

\* the state of the global random generator, the seed argument of the
\* construction, a Dataset built by a later constructor call and the
\* datasets a MultiDataset holds
extra == <<rng, seed, built, multi>>

(***************************************************************************)
(* Bounds of the model.                                                    *)
(***************************************************************************)
MaxN == 3
MaxBatchsize == 4
MaxEpochs == 3
MaxBatches == 8
MaxInputs == 3
MaxOther == 1
MaxNormalize == 1
MaxSeed == 1
MaxDraws == 1
MaxHeld == 2
MaxRows == 2
MaxRenormalize == 2

(***************************************************************************)
(* Python and numpy primitives.                                            *)
(***************************************************************************)
None == <<>>

Some(x) == <<x>>

Min(a, b) == IF a <= b THEN a ELSE b

\* s[a:b] for 0 <= a and 0 <= b: both ends are clamped to len(s)
PySlice(s, a, b) ==
    LET lo == Min(a, Len(s))
        hi == Min(b, Len(s))
    IN  IF hi <= lo THEN <<>> ELSE SubSeq(s, lo + 1, hi)

\* s[a:]
PySliceFrom(s, a) == PySlice(s, a, Len(s))

\* np.arange(n)
arange(n) == [k \in 1..n |-> k - 1]

\* every value np.random.permutation(n) can return
permutation(n) ==
    {p \in [1..n -> 0..(n - 1)] : \A i, j \in 1..n : p[i] = p[j] => i = j}

\* np.hstack((a, b))
hstack(a, b) == a \o b

\* the record of the last call made on the Dataset: the method, its argument
\* and whether it drew a new training permutation
NoCall == [op |-> "none", arg |-> 0, drew |-> FALSE]

\* the global generator of np.random.  state names the state it is in: the
\* seed it was last seeded with and the lengths of the permutations drawn
\* since.  known is what has been seen of its output: the permutation it
\* returned in each state it was asked in.
RngState(state, known) == [state |-> state, known |-> known]

\* a generator nobody looks at
NoRng == RngState(<<0>>, {})

RECURSIVE SumSeq(_)
SumSeq(s) == IF s = <<>> THEN 0 ELSE Head(s) + SumSeq(Tail(s))

(***************************************************************************)
(* batchify (lines 16-58).  gen is the generator object: its arguments,    *)
(* its locals, the yield statement it is suspended at (pc), the batch it   *)
(* yielded last (the index array handed to get_data), the sizes of all     *)
(* batches the consumer received so far and the number of times each       *)
(* sample index was yielded (count).                                       *)
(***************************************************************************)
get_perm(n, shuffle) == IF shuffle THEN permutation(n) ELSE {arange(n)}

NewGenerator(n, batchsize, n_epochs, shuffle, cutoff) ==
    [N |-> n, batchsize |-> batchsize, n_epochs |-> n_epochs,
     shuffle |-> shuffle, cutoff |-> cutoff,
     perm |-> <<>>, pos |-> 0, epoch |-> 0, missing |-> 0,
     pc |-> "start", batch |-> <<>>, sizes |-> <<>>,
     count |-> [i \in 1..n |-> 0]]

\* the statements run when the generator is resumed, up to the loop test
Resume(g, p0) ==
    CASE g.pc = "start"   -> [g EXCEPT !.perm = p0, !.pos = 0, !.epoch = 0]
      [] g.pc = "yield53" -> [g EXCEPT !.epoch = g.epoch + 1, !.pos = g.missing]
      [] g.pc = "yield57" -> [g EXCEPT !.pos = g.pos + g.batchsize]
      [] OTHER            -> g

LoopCond(g) == g.n_epochs <= 0 \/ g.epoch < g.n_epochs - 1 \/ g.pos < g.N

Overflows(g) == g.pos + g.batchsize > g.N

LastEpochLoose(g) == g.epoch >= g.n_epochs - 1

LastEpoch(g) == g.epoch = g.n_epochs - 1

\* how many times the index x occurs in indicies
Occurrences(indicies, x) == Cardinality({k \in 1..Len(indicies) : indicies[k] = x})

Yield(g, indicies, at) ==
    [g EXCEPT !.batch = indicies, !.pc = at, !.sizes = Append(g.sizes, Len(indicies)),
              !.count = [i \in 1..g.N |-> @[i] + Occurrences(indicies, i - 1)]]

SliceBatch(g) == PySlice(g.perm, g.pos, g.pos + g.batchsize)

TailBatchDropped(g) == PySlice(g.perm, g.pos, g.N - 1)

TailBatch(g) == PySliceFrom(g.perm, g.pos)

\* lines 48-53: the batch that straddles two epochs, p1 the permutation drawn
Straddle(g, p1) ==
    LET missing == g.pos + g.batchsize - g.N
        pos1 == PySliceFrom(g.perm, g.pos)
        pos2 == PySlice(p1, 0, missing)
    IN  Yield([g EXCEPT !.missing = missing, !.perm = p1],
              hstack(pos1, pos2), "yield53")

Running(g) == g.pc /= "done" /\ Len(g.sizes) < MaxBatches

\* line 38 runs on the first resumption only
FirstPerm(g) == IF g.pc = "start" THEN get_perm(g.N, g.shuffle) ELSE {g.perm}

\* line 57
BatchifyYieldSlice ==
    /\ Running(gen)
    /\ \E p0 \in FirstPerm(gen) :
         LET g == Resume(gen, p0)
         IN  /\ gen.pc /= "yield45"
             /\ LoopCond(g)
             /\ ~Overflows(g)
             /\ gen' = Yield(g, SliceBatch(g), "yield57")
    /\ UNCHANGED <<args, dataset, copied, call, raised, served, ret, extra>>

\* line 45
BatchifyYieldTail ==
    /\ Running(gen)
    /\ \E p0 \in FirstPerm(gen) :
         LET g == Resume(gen, p0)
         IN  /\ gen.pc /= "yield45"
             /\ LoopCond(g)
             /\ Overflows(g)
             /\ LastEpoch(g)
             /\ ~g.cutoff
             /\ gen' = Yield(g, TailBatch(g), "yield45")
    /\ UNCHANGED <<args, dataset, copied, call, raised, served, ret, extra>>

\* lines 48-53
BatchifyYieldStraddle ==
    /\ Running(gen)
    /\ \E p0 \in FirstPerm(gen) :
         LET g == Resume(gen, p0)
         IN  /\ gen.pc /= "yield45"
             /\ LoopCond(g)
             /\ Overflows(g)
             /\ ~LastEpoch(g)
             /\ \E p1 \in get_perm(gen.N, gen.shuffle) : gen' = Straddle(g, p1)
    /\ UNCHANGED <<args, dataset, copied, call, raised, served, ret, extra>>

\* line 46 after the tail was yielded
BatchifyReturnAfterTail ==
    /\ gen.pc = "yield45"
    /\ gen' = [gen EXCEPT !.pc = "done"]
    /\ UNCHANGED <<args, dataset, copied, call, raised, served, ret, extra>>

\* line 46 with cutoff: the partial batch is not yielded
BatchifyReturnCutoff ==
    /\ gen.pc \notin {"yield45", "done"}
    /\ \E p0 \in FirstPerm(gen) :
         LET g == Resume(gen, p0)
         IN  /\ LoopCond(g)
             /\ Overflows(g)
             /\ LastEpoch(g)
             /\ g.cutoff
             /\ gen' = [g EXCEPT !.pc = "done"]
    /\ UNCHANGED <<args, dataset, copied, call, raised, served, ret, extra>>

\* line 41: the loop test fails
BatchifyReturnExhausted ==
    /\ gen.pc \notin {"yield45", "done"}
    /\ \E p0 \in FirstPerm(gen) :
         LET g == Resume(gen, p0)
         IN  /\ ~LoopCond(g)
             /\ gen' = [g EXCEPT !.pc = "done"]
    /\ UNCHANGED <<args, dataset, copied, call, raised, served, ret, extra>>

BatchifyNext ==
    \/ BatchifyYieldSlice
    \/ BatchifyYieldTail
    \/ BatchifyYieldStraddle
    \/ BatchifyReturnAfterTail
    \/ BatchifyReturnCutoff
    \/ BatchifyReturnExhausted

BatchifyInit ==
    /\ \E n \in 1..MaxN, b \in 1..MaxBatchsize, e \in (-1)..MaxEpochs,
          s \in BOOLEAN, c \in BOOLEAN :
         gen = NewGenerator(n, b, e, s, c)
    /\ args = None
    /\ dataset = None
    /\ copied = None
    /\ call = NoCall
    /\ raised = FALSE
    /\ served = <<>>
    /\ ret = None
    /\ rng = NoRng
    /\ seed = None
    /\ built = None
    /\ multi = <<>>

SpecBatchify == BatchifyInit /\ [][BatchifyNext]_vars

(***************************************************************************)
(* Arrays.  A leaf array is symbolic: the argument it came from (src), its *)
(* position in the flattened structure (leaf), the original row held at    *)
(* each position along the batch dimension (rows) and the normalizations   *)
(* applied to it so far (hist), each a (mean, std) pair.                   *)
(***************************************************************************)
Array(src, leaf, n) == [src |-> src, leaf |-> leaf, rows |-> arange(n), hist |-> <<>>]

\* len(x)
len(x) == Len(x.rows)

\* x[idx] for an index list idx: a gather along the batch dimension
take(x, idx) == [x EXCEPT !.rows = [k \in 1..Len(idx) |-> x.rows[idx[k] + 1]]]

\* [x[idx] for x in data]
take_all(data, idx) == [i \in 1..Len(data) |-> take(data[i], idx)]

Range(s) == {s[k] : k \in 1..Len(s)}

\* sorted(s) for a list of distinct integers
sorted(s) ==
    [k \in 1..Len(s) |->
        CHOOSE v \in Range(s) : Cardinality({w \in Range(s) : w < v}) = k - 1]

round_half_up(num, den) == (2 * num + den) \div (2 * den)

\* round(num / den) for den > 0: Python 3 rounds a tie to the even neighbour
round(num, den) ==
    LET q == num \div den
        r == num % den
    IN  IF 2 * r < den THEN q
        ELSE IF 2 * r > den THEN q + 1
        ELSE IF q % 2 = 0 THEN q ELSE q + 1

has_same_batch_first_two(data) == Len(data) < 2 \/ len(data[2]) = len(data[1])

\* has_same_batch (lines 113-115)
has_same_batch(data) == \A i \in 2..Len(data) : len(data[i]) = len(data[1])

(***************************************************************************)
(* Dataset (lines 61-428).  A Dataset object is a record of its attributes.*)
(***************************************************************************)
\* lines 354-366: the three size properties
n_train_samples(self) == len(self._train_inputs[1])

n_test_samples(self) ==
    IF self._test_inputs /= None THEN len(self._test_inputs[1][1]) ELSE 0

n_validation_samples(self) ==
    IF self._validation_inputs /= None THEN len(self._validation_inputs[1][1]) ELSE 0

\* get_stats (lines 270-278): the statistics of one leaf, symbolic in the
\* data they were computed from; the stationary ones ignore axis
get_stats(x, axis) ==
    [mean |-> [stat |-> "mean", of |-> x, axis |-> axis],
     std |-> [stat |-> "std", of |-> x, axis |-> axis],
     stationary_mean |-> [stat |-> "mean", of |-> x, axis |-> "all"],
     stationary_std |-> [stat |-> "std", of |-> x, axis |-> "all"]]

\* update_stats (lines 266-284)
update_stats(self, axis) ==
    LET n == Len(self._train_inputs)
    IN  [self EXCEPT
           !._inputs_mean = [i \in 1..n |-> get_stats(self._train_inputs[i], axis).mean],
           !._inputs_std = [i \in 1..n |-> get_stats(self._train_inputs[i], axis).std],
           !._inputs_stationary_mean =
               [i \in 1..n |-> get_stats(self._train_inputs[i], axis).stationary_mean],
           !._inputs_stationary_std =
               [i \in 1..n |-> get_stats(self._train_inputs[i], axis).stationary_std]]

next_epoch_shuffling_rows(self, p) ==
    [self EXCEPT !.minibatch_idx = 0, !.train_perm = p,
                 !._train_inputs = take_all(@, p), !._train_targets = take_all(@, p)]

next_epoch_keep_cursor(self, p) == [self EXCEPT !.train_perm = p]

\* next_epoch (lines 419-428), p the permutation np.random.permutation returns
next_epoch(self, p) == [self EXCEPT !.minibatch_idx = 0, !.train_perm = p]

\* the split position of line 149, as the slices of lines 150-151 use it
split_at(n_inputs, train_frac) == round(n_inputs * train_frac.num, train_frac.den)

splits_whenever_positive(validation_inputs, train_frac) == train_frac.num > 0

\* line 145
splits(validation_inputs, train_frac) ==
    validation_inputs = None /\ train_frac.num > 0

\* the containers a nested structure of leaves is packed in: Dataset keeps
\* the leaves flat and packs them back on every read (lines 123-124)
Containers == {"list", "tuple"}

\* the keyword arguments of a construction; inputs and targets are the
\* flattened leaves of two lists
Args(inputs, targets, test, validation, train_frac) ==
    [inputs |-> inputs, targets |-> targets,
     inputs_structure |-> "list", targets_structure |-> "list",
     test_inputs |-> IF test = None THEN None ELSE Some(test[1].inputs),
     test_targets |-> IF test = None THEN None ELSE Some(test[1].targets),
     validation_inputs |-> IF validation = None THEN None ELSE Some(validation[1].inputs),
     validation_targets |-> IF validation = None THEN None ELSE Some(validation[1].targets),
     train_frac |-> train_frac]

\* the same arguments with inputs and targets packed in other containers
Nested(a, inputs_structure, targets_structure) ==
    [a EXCEPT !.inputs_structure = inputs_structure,
              !.targets_structure = targets_structure]

\* __init__ (lines 93-171), for arguments a that pass the checks of lines
\* 117-142; perm is the permutation drawn at line 148
DatasetFields(a, perm) ==
    LET n_inputs == len(a.inputs[1])
        split == split_at(n_inputs, a.train_frac)
        do_split == splits(a.validation_inputs, a.train_frac)
        train_idx == sorted(PySlice(perm, 0, split))
        validation_idx == sorted(PySliceFrom(perm, split))
        self0 ==
          [_train_inputs |->
               IF do_split THEN take_all(a.inputs, train_idx) ELSE a.inputs,
           _train_targets |->
               IF do_split THEN take_all(a.targets, train_idx) ELSE a.targets,
           _validation_inputs |->
               IF do_split THEN Some(take_all(a.inputs, validation_idx))
               ELSE a.validation_inputs,
           _validation_targets |->
               IF do_split THEN Some(take_all(a.targets, validation_idx))
               ELSE a.validation_targets,
           _test_inputs |-> a.test_inputs,
           _test_targets |-> a.test_targets,
           inputs_structure |-> a.inputs_structure,
           targets_structure |-> a.targets_structure,
           train_idx |-> IF do_split THEN Some(train_idx) ELSE None,
           validation_idx |-> IF do_split THEN Some(validation_idx) ELSE None,
           _inputs_mean |-> <<>>, _inputs_std |-> <<>>,
           _inputs_stationary_mean |-> <<>>, _inputs_stationary_std |-> <<>>,
           minibatch_idx |-> 0,
           train_perm |-> <<>>,
           _minibatch_indicies |-> None,
           normalizer |-> None]
        self1 == update_stats(self0, "None")
    IN  [self1 EXCEPT !.train_perm = arange(n_train_samples(self1))]

\* every Dataset the constructor can return for the arguments a: lines
\* 93-174 with the permutations of lines 148 and 428 drawn freely
Dataset(a) ==
    UNION { LET d == DatasetFields(a, perm)
            IN  {next_epoch(d, p) : p \in permutation(n_train_samples(d))}
            : perm \in permutation(len(a.inputs[1])) }

\* the default of the train_frac parameter (line 70)
DefaultTrainFrac == [num |-> 4, den |-> 5]

\* the arguments copy passes to the constructor (lines 262-264)
copy_args(self, train_frac) ==
    [inputs |-> self._train_inputs, targets |-> self._train_targets,
     inputs_structure |-> self.inputs_structure,
     targets_structure |-> self.targets_structure,
     test_inputs |-> self._test_inputs, test_targets |-> self._test_targets,
     validation_inputs |-> self._validation_inputs,
     validation_targets |-> self._validation_targets,
     train_frac |-> train_frac]

\* line 262: train_inputs and train_targets are the packed structures, and
\* .copy() is a method of a list, a dict and an array but not of a tuple
copy_raises(self) ==
    self.inputs_structure = "tuple" \/ self.targets_structure = "tuple"

\* copy (lines 258-264): every Dataset the call can return when line 262
\* does not raise
copy(self) == Dataset(copy_args(self, DefaultTrainFrac))

normalize_inputs_all(data, inputs_mean, inputs_std, control) ==
    [i \in 1..Len(data) |->
        [data[i] EXCEPT !.hist = Append(@, [mu |-> inputs_mean[i],
                                            sigma |-> inputs_std[i]])]]

\* normalize_inputs (lines 329-333) with the closure's mean, std and control
normalize_inputs(data, inputs_mean, inputs_std, control) ==
    [i \in 1..Len(data) |->
        IF control[i]
        THEN [data[i] EXCEPT !.hist = Append(@, [mu |-> inputs_mean[i],
                                                 sigma |-> inputs_std[i]])]
        ELSE data[i]]

normalize_by_own_statistics(self, axis, control) ==
    LET s1 == update_stats(self, axis)
        mu == s1._inputs_mean
        sigma == s1._inputs_std
        own(data, stat) == [i \in 1..Len(data) |-> get_stats(data[i], axis)[stat]]
        s2 == [s1 EXCEPT
                 !.normalizer = Some([mean |-> mu, std |-> sigma, control |-> control]),
                 !._train_inputs = normalize_inputs(@, mu, sigma, control),
                 !._test_inputs =
                     IF @ /= None
                     THEN Some(normalize_inputs(@[1], own(@[1], "mean"), own(@[1], "std"),
                                                control))
                     ELSE @,
                 !._validation_inputs =
                     IF @ /= None
                     THEN Some(normalize_inputs(@[1], own(@[1], "mean"), own(@[1], "std"),
                                                control))
                     ELSE @]
    IN  update_stats(s2, axis)

\* normalize (lines 314-345); control is the flattened list of flags
normalize(self, axis, control) ==
    LET s1 == update_stats(self, axis)
        mu == s1._inputs_mean
        sigma == s1._inputs_std
        s2 == [s1 EXCEPT
                 !.normalizer = Some([mean |-> mu, std |-> sigma, control |-> control]),
                 !._train_inputs = normalize_inputs(@, mu, sigma, control),
                 !._test_inputs =
                     IF @ /= None THEN Some(normalize_inputs(@[1], mu, sigma, control))
                     ELSE @,
                 !._validation_inputs =
                     IF @ /= None THEN Some(normalize_inputs(@[1], mu, sigma, control))
                     ELSE @]
    IN  update_stats(s2, axis)

minibatch_raises_at_limit(self, batch_size) == batch_size >= n_train_samples(self)

\* lines 400-402
minibatch_raises(self, batch_size) == batch_size > n_train_samples(self)

minibatch_overflows_strict(self, batch_size) ==
    self.minibatch_idx + batch_size >= n_train_samples(self)

\* line 404
minibatch_overflows(self, batch_size) ==
    self.minibatch_idx + batch_size > n_train_samples(self)

minibatch_straddling(self, batch_size, p) ==
    IF minibatch_overflows(self, batch_size)
    THEN LET missing == self.minibatch_idx + batch_size - n_train_samples(self)
             idx == hstack(PySliceFrom(self.train_perm, self.minibatch_idx),
                           PySlice(p, 0, missing))
         IN  [self EXCEPT !.train_perm = p, !._minibatch_indicies = Some(idx),
                          !.minibatch_idx = missing]
    ELSE LET idx == PySlice(self.train_perm, self.minibatch_idx,
                            self.minibatch_idx + batch_size)
         IN  [self EXCEPT !._minibatch_indicies = Some(idx),
                          !.minibatch_idx = self.minibatch_idx + batch_size]

\* lines 403-408 of minibatch for a batch_size that does not raise, p the
\* permutation next_epoch draws when the cursor would overflow
minibatch(self, batch_size, p) ==
    LET s1 == IF minibatch_overflows(self, batch_size) THEN next_epoch(self, p) ELSE self
        idx == PySlice(s1.train_perm, s1.minibatch_idx, s1.minibatch_idx + batch_size)
    IN  [s1 EXCEPT !._minibatch_indicies = Some(idx),
                   !.minibatch_idx = s1.minibatch_idx + batch_size]

(***************************************************************************)
(* The calls a training loop makes on one Dataset.  args holds the         *)
(* arguments the Dataset was constructed from, copied the Dataset the last *)
(* copy() returned, call the last call, raised whether it raised, and      *)
(* served the minibatch_indicies of every minibatch served since the       *)
(* current training permutation was drawn.                                 *)
(***************************************************************************)
Called(op, arg, drew) == [op |-> op, arg |-> arg, drew |-> drew]

\* a nested structure of two input leaves and one target leaf, n rows each
ExampleSet(src, n) ==
    [inputs |-> <<Array(src, "inputs0", n), Array(src, "inputs1", n)>>,
     targets |-> <<Array(src, "targets0", n)>>]

OptionalSets(src) == {None} \cup {Some(ExampleSet(src, n)) : n \in 1..MaxOther}

TrainFracs ==
    {[num |-> 0, den |-> 1], [num |-> 1, den |-> 2],
     [num |-> 4, den |-> 5], [num |-> 3, den |-> 2]}

\* axis=None
NoAxis == "None"

\* line 321
DefaultControl(self) == [i \in 1..Len(self._train_inputs) |-> TRUE]

NormalizeDepth(self) ==
    LET lens == {Len(self._train_inputs[i].hist) : i \in 1..Len(self._train_inputs)}
    IN  CHOOSE m \in lens : \A k \in lens : k <= m

\* line 405 draws a permutation only when the cursor would overflow
EpochPerm(self, b) ==
    IF minibatch_overflows(self, b) THEN permutation(n_train_samples(self))
    ELSE {self.train_perm}

\* minibatch(b) raising at line 401
Raise(b) ==
    /\ minibatch_raises(dataset, b)
    /\ call' = Called("minibatch", b, FALSE)
    /\ raised' = TRUE
    /\ UNCHANGED <<gen, args, dataset, copied, ret, extra>>

\* minibatch(b) returning a batch, p the permutation a new epoch draws
Serve(b, p) ==
    /\ ~minibatch_raises(dataset, b)
    /\ dataset' = minibatch(dataset, b, p)
    /\ call' = Called("minibatch", b, minibatch_overflows(dataset, b))
    /\ raised' = FALSE
    /\ UNCHANGED <<gen, args, copied, extra>>

\* next_epoch()
Draw(p) ==
    /\ dataset' = next_epoch(dataset, p)
    /\ call' = Called("next_epoch", 0, TRUE)
    /\ raised' = FALSE
    /\ UNCHANGED <<gen, args, copied, ret, extra>>

\* the batch sizes a caller asks for: from 0 to one more than there are rows
BatchSizes(self) == 0..(n_train_samples(self) + 1)

MinibatchRaises ==
    /\ \E b \in BatchSizes(dataset) : Raise(b)
    /\ UNCHANGED served

MinibatchServes ==
    /\ \E b \in BatchSizes(dataset) : \E p \in EpochPerm(dataset, b) : Serve(b, p)
    /\ UNCHANGED <<served, ret>>

NextEpoch ==
    /\ \E p \in permutation(n_train_samples(dataset)) : Draw(p)
    /\ UNCHANGED served

\* the same calls made by a loop that logs the indices of every minibatch of
\* the current epoch and asks for at least one row
MinibatchServesLogged ==
    \E b \in BatchSizes(dataset) \ {0} : \E p \in EpochPerm(dataset, b) :
        /\ Serve(b, p)
        /\ served' = Append(IF minibatch_overflows(dataset, b) THEN <<>> ELSE served,
                            dataset'._minibatch_indicies[1])
        /\ UNCHANGED ret

NextEpochLogged ==
    /\ \E p \in permutation(n_train_samples(dataset)) : Draw(p)
    /\ served' = <<>>

UpdateStatsOver(axes) ==
    /\ \E axis \in axes : dataset' = update_stats(dataset, axis)
    /\ call' = Called("update_stats", 0, FALSE)
    /\ raised' = FALSE
    /\ UNCHANGED <<gen, args, copied, served, ret, extra>>

NormalizeOver(axes, controls) ==
    /\ NormalizeDepth(dataset) < MaxNormalize
    /\ \E axis \in axes, control \in controls :
         dataset' = normalize(dataset, axis, control)
    /\ call' = Called("normalize", 0, FALSE)
    /\ raised' = FALSE
    /\ UNCHANGED <<gen, args, copied, served, ret, extra>>

\* update_stats() and normalize() with their default arguments
UpdateStats == UpdateStatsOver({NoAxis})

Normalize == NormalizeOver({NoAxis}, {DefaultControl(dataset)})

\* copy() returning a Dataset
CopyReturns ==
    /\ ~copy_raises(dataset)
    /\ \E c \in copy(dataset) : copied' = Some(c)
    /\ call' = Called("copy", 0, TRUE)
    /\ raised' = FALSE
    /\ UNCHANGED <<gen, args, dataset, served, ret, extra>>

\* copy() raising AttributeError at line 262: no Dataset is constructed
CopyRaises ==
    /\ copy_raises(dataset)
    /\ call' = Called("copy", 0, FALSE)
    /\ raised' = TRUE
    /\ UNCHANGED <<gen, args, dataset, copied, served, ret, extra>>

\* a Dataset constructed from n rows of two input leaves and one target
\* leaf, packed in one of the given containers
ConstructedAs(containers, sizes, tests, validations, train_fracs) ==
    /\ gen = NewGenerator(1, 1, 1, FALSE, FALSE)
    /\ \E n \in sizes, test \in tests, validation \in validations,
          train_frac \in train_fracs, ic \in containers, tc \in containers :
         /\ args = Nested(Args(ExampleSet("train", n).inputs,
                               ExampleSet("train", n).targets,
                               test, validation, train_frac), ic, tc)
         /\ dataset \in Dataset(args)
    /\ copied = None
    /\ call = Called("__init__", 0, TRUE)
    /\ raised = FALSE
    /\ served = <<>>
    /\ ret = None
    /\ rng = NoRng
    /\ seed = None
    /\ built = None
    /\ multi = <<>>

\* the same for inputs and targets given as lists
Constructed(sizes, tests, validations, train_fracs) ==
    ConstructedAs({"list"}, sizes, tests, validations, train_fracs)

\* the training loop: minibatches, epochs, statistics and normalization
Init == Constructed(1..MaxInputs, {None}, {None}, TrainFracs)

Next ==
    \/ MinibatchRaises
    \/ MinibatchServes
    \/ NextEpoch
    \/ UpdateStats
    \/ Normalize

Spec == Init /\ [][Next]_vars

\* every way of supplying the test and validation sets
InitAny ==
    Constructed(1..MaxInputs, OptionalSets("test"), OptionalSets("validation"), TrainFracs)

\* a constructed Dataset whose statistics and epoch are refreshed
NextConstruct ==
    \/ UpdateStats
    \/ Normalize
    \/ NextEpoch

SpecConstruct == InitAny /\ [][NextConstruct]_vars

\* copies of a Dataset, before and after it is normalized
NextCopy ==
    \/ UpdateStats
    \/ Normalize
    \/ CopyReturns
    \/ CopyRaises

\* every way of supplying the sets, in lists and in tuples
InitCopy ==
    ConstructedAs(Containers, 1..MaxInputs, OptionalSets("test"),
                  OptionalSets("validation"), TrainFracs)

SpecCopy == InitCopy /\ [][NextCopy]_vars

\* the logging training loop
NextEpochs ==
    \/ MinibatchRaises
    \/ MinibatchServesLogged
    \/ NextEpochLogged

SpecEpochs == Init /\ [][NextEpochs]_vars

(***************************************************************************)
(* Seeded construction (lines 145-151 and 168-172).  np.random is one      *)
(* global generator.  What it returns is a function of its state that the  *)
(* model does not know: the first draw in a state may return any           *)
(* permutation, and a later draw in the same state returns the same one.   *)
(***************************************************************************)
\* np.random.seed(s): the generator restarts from the state s names
np_random_seed(r, s) == RngState(<<s>>, r.known)

\* the generator after a permutation of n elements was drawn with outcome
\* perm: shuffling fewer than two elements consumes nothing
advance(r, n, perm) ==
    IF n < 2 THEN r
    ELSE RngState(Append(r.state, n),
                  r.known \cup {[state |-> r.state, perm |-> perm]})

\* np.random.permutation(n) with the generator in state r: every
\* permutation it can return, each with the generator it leaves behind
np_random_permutation(r, n) ==
    LET seen == {e \in r.known : e.state = r.state /\ Len(e.perm) = n}
        perms == IF seen = {} THEN permutation(n) ELSE {e.perm : e \in seen}
    IN  {[perm |-> perm, rng |-> advance(r, n, perm)] : perm \in perms}

seed_is_not_none(s) == s /= None

\* line 146: "if seed:" is the truth value of seed, false for None and for 0
seed_is_truthy(s) == s /= None /\ s[1] /= 0

\* __init__ (lines 93-174) run with the keyword seed while the global
\* generator is in state r: every Dataset it can build, each with the
\* generator it leaves behind
SeededDataset(a, s, r) ==
    LET do_split == splits(a.validation_inputs, a.train_frac)
        n_inputs == len(a.inputs[1])
        r1 == IF do_split /\ seed_is_truthy(s) THEN np_random_seed(r, s[1]) ELSE r
        split_draws == IF do_split THEN np_random_permutation(r1, n_inputs)
                       ELSE {[perm |-> arange(n_inputs), rng |-> r]}
    IN  UNION { LET d == DatasetFields(a, first.perm)
                IN  {[self |-> next_epoch(d, epoch.perm), rng |-> epoch.rng] :
                        epoch \in np_random_permutation(first.rng, n_train_samples(d))}
                : first \in split_draws }

\* the seeds a caller passes: None or an integer
Seeds == {None} \cup {Some(s) : s \in 0..MaxSeed}

\* the generator states reached from a seed by up to k draws
RECURSIVE StatesWithin(_)
StatesWithin(k) ==
    IF k = 0 THEN {<<s>> : s \in 0..MaxSeed}
    ELSE StatesWithin(k - 1)
         \cup {Append(h, n) : h \in StatesWithin(k - 1), n \in 2..MaxInputs}

\* the states other code can have left the generator in
RngStates == {RngState(h, {}) : h \in StatesWithin(MaxDraws)}

\* a Dataset constructed with a seed while the generator is in any state
InitSeed ==
    /\ gen = NewGenerator(1, 1, 1, FALSE, FALSE)
    /\ \E n \in 1..MaxInputs, train_frac \in TrainFracs, s \in Seeds, r \in RngStates :
         /\ args = Args(ExampleSet("train", n).inputs, ExampleSet("train", n).targets,
                        None, None, train_frac)
         /\ seed = s
         /\ \E made \in SeededDataset(args, s, r) :
              /\ dataset = made.self
              /\ rng = made.rng
    /\ copied = None
    /\ call = Called("__init__", 0, TRUE)
    /\ raised = FALSE
    /\ served = <<>>
    /\ ret = None
    /\ built = None
    /\ multi = <<>>

\* other code draws a permutation from the global generator and keeps it to
\* itself: the generator moves on and nothing more is known of its output
OtherDraw ==
    /\ built = None
    /\ Len(rng.state) <= MaxDraws
    /\ \E n \in 2..MaxInputs : rng' = RngState(Append(rng.state, n), rng.known)
    /\ call' = Called("np.random.permutation", 0, TRUE)
    /\ UNCHANGED <<gen, args, dataset, copied, raised, served, ret, seed, built, multi>>

\* other code seeds the global generator, between the two constructions
OtherSeed ==
    /\ built = None
    /\ \E s \in 0..MaxSeed : rng' = np_random_seed(rng, s)
    /\ call' = Called("np.random.seed", 0, FALSE)
    /\ UNCHANGED <<gen, args, dataset, copied, raised, served, ret, seed, built, multi>>

\* the constructor is called once more with the same arguments and seed
ConstructAgain ==
    /\ built = None
    /\ \E made \in SeededDataset(args, seed, rng) :
         /\ built' = Some(made.self)
         /\ rng' = made.rng
    /\ call' = Called("__init__", 0, TRUE)
    /\ UNCHANGED <<gen, args, dataset, copied, raised, served, ret, seed, multi>>

NextSeed ==
    \/ OtherDraw
    \/ OtherSeed
    \/ ConstructAgain

SpecSeed == InitSeed /\ [][NextSeed]_vars

(***************************************************************************)
(* Construction with every way of supplying the validation set and a       *)
(* train_frac on either side of zero.                                      *)
(***************************************************************************)
NegativeTrainFrac == [num |-> -1, den |-> 2]

InitProvenance ==
    Constructed(1..MaxInputs, OptionalSets("test"), OptionalSets("validation"),
                TrainFracs \cup {NegativeTrainFrac})

SpecProvenance == InitProvenance /\ [][NextConstruct]_vars

(***************************************************************************)
(* MultiDataset (lines 431-552): multi is the tuple _datasets of Dataset   *)
(* objects it holds.                                                       *)
(***************************************************************************)
multi_n_train_samples_max(datasets) ==
    CHOOSE m \in {n_train_samples(datasets[i]) : i \in 1..Len(datasets)} :
        \A i \in 1..Len(datasets) : n_train_samples(datasets[i]) <= m

\* MultiDataset.n_train_samples (lines 506-508)
multi_n_train_samples(datasets) ==
    CHOOSE m \in {n_train_samples(datasets[i]) : i \in 1..Len(datasets)} :
        \A i \in 1..Len(datasets) : m <= n_train_samples(datasets[i])

\* the list comprehension of line 546 from dataset i on: each dataset serves
\* in turn, and one that raises ends the call with the earlier ones served;
\* drew tells whether a dataset served so far drew a new permutation
RECURSIVE minibatch_each(_, _, _, _, _)
minibatch_each(datasets, batch_size, ps, i, drew) ==
    IF i > Len(datasets) THEN [raised |-> FALSE, datasets |-> datasets, drew |-> drew]
    ELSE IF minibatch_raises(datasets[i], batch_size)
         THEN [raised |-> TRUE, datasets |-> datasets, drew |-> drew]
         ELSE minibatch_each([datasets EXCEPT ![i] = minibatch(@, batch_size, ps[i])],
                             batch_size, ps, i + 1,
                             drew \/ minibatch_overflows(datasets[i], batch_size))

\* MultiDataset.minibatch (lines 542-548), ps[i] the permutation dataset i
\* draws if its cursor overflows
multi_minibatch(datasets, batch_size, ps) ==
    IF batch_size > multi_n_train_samples(datasets)
    THEN [raised |-> TRUE, datasets |-> datasets, drew |-> FALSE]
    ELSE minibatch_each(datasets, batch_size, ps, 1, FALSE)

\* MultiDataset.update_stats (lines 475-477)
multi_update_stats(datasets, axis) ==
    [i \in 1..Len(datasets) |-> update_stats(datasets[i], axis)]

\* MultiDataset.normalize (lines 495-504): every held dataset is normalized
\* with the default control; the normalizer of the MultiDataset applies the
\* normalizer each held dataset now has to the matching entry of its argument
multi_normalize(datasets, axis) ==
    [i \in 1..Len(datasets) |-> normalize(datasets[i], axis, DefaultControl(datasets[i]))]

\* MultiDataset.next_epoch (lines 550-552)
multi_next_epoch(datasets, ps) ==
    [i \in 1..Len(datasets) |-> next_epoch(datasets[i], ps[i])]

\* one permutation for each held dataset, the i-th from the set choices[i]
RECURSIVE PermsFor(_)
PermsFor(choices) ==
    IF choices = <<>> THEN {<<>>}
    ELSE {<<p>> \o ps : p \in Head(choices), ps \in PermsFor(Tail(choices))}

\* a Dataset of n rows that keeps all of them for training
WholeDataset(src, n) ==
    Dataset(Args(ExampleSet(src, n).inputs, ExampleSet(src, n).targets,
                 None, None, [num |-> 0, den |-> 1]))

\* MultiDataset(first, second) over two Datasets of their own sizes
InitMulti ==
    /\ gen = NewGenerator(1, 1, 1, FALSE, FALSE)
    /\ args = Args(ExampleSet("first", 1).inputs, ExampleSet("first", 1).targets,
                   None, None, [num |-> 0, den |-> 1])
    /\ dataset \in Dataset(args)
    /\ \E n1 \in 1..MaxHeld, n2 \in 1..MaxHeld :
         \E d1 \in WholeDataset("first", n1), d2 \in WholeDataset("second", n2) :
            multi = <<d1, d2>>
    /\ copied = None
    /\ call = Called("MultiDataset.__init__", 0, FALSE)
    /\ raised = FALSE
    /\ served = <<>>
    /\ ret = None
    /\ rng = NoRng
    /\ seed = None
    /\ built = None

\* MultiDataset.minibatch(b), for b up to one more than the largest dataset
MultiMinibatch ==
    /\ \E b \in 0..(multi_n_train_samples_max(multi) + 1) :
         LET choices == [i \in 1..Len(multi) |-> EpochPerm(multi[i], b)]
         IN  \E ps \in PermsFor(choices) :
               /\ multi' = multi_minibatch(multi, b, ps).datasets
               /\ raised' = multi_minibatch(multi, b, ps).raised
               /\ call' = Called("MultiDataset.minibatch", b,
                                 multi_minibatch(multi, b, ps).drew)
    /\ UNCHANGED <<gen, args, dataset, copied, served, ret, rng, seed, built>>

\* MultiDataset.next_epoch()
MultiNextEpoch ==
    /\ LET choices == [i \in 1..Len(multi) |-> permutation(n_train_samples(multi[i]))]
       IN  \E ps \in PermsFor(choices) : multi' = multi_next_epoch(multi, ps)
    /\ raised' = FALSE
    /\ call' = Called("MultiDataset.next_epoch", 0, TRUE)
    /\ UNCHANGED <<gen, args, dataset, copied, served, ret, rng, seed, built>>

\* MultiDataset.update_stats()
MultiUpdateStats ==
    /\ multi' = multi_update_stats(multi, NoAxis)
    /\ raised' = FALSE
    /\ call' = Called("MultiDataset.update_stats", 0, FALSE)
    /\ UNCHANGED <<gen, args, dataset, copied, served, ret, rng, seed, built>>

\* MultiDataset.normalize(), called once
MultiNormalize ==
    /\ \A i \in 1..Len(multi) : multi[i].normalizer = None
    /\ multi' = multi_normalize(multi, NoAxis)
    /\ raised' = FALSE
    /\ call' = Called("MultiDataset.normalize", 0, FALSE)
    /\ UNCHANGED <<gen, args, dataset, copied, served, ret, rng, seed, built>>

NextMulti ==
    \/ MultiMinibatch
    \/ MultiNextEpoch
    \/ MultiUpdateStats
    \/ MultiNormalize

SpecMulti == InitMulti /\ [][NextMulti]_vars

(***************************************************************************)
(* Normalization under control flags, between minibatches, of a Dataset    *)
(* that may hold a test set and a validation set.                          *)
(***************************************************************************)
\* every list of flags, one per input leaf
Controls(self) == [1..Len(self._train_inputs) -> BOOLEAN]

\* normalize(control=c) with the default axis
NormalizeControl == NormalizeOver({NoAxis}, Controls(dataset))

\* a Dataset that keeps all of its MaxOther + 1 rows for training
InitControl ==
    Constructed({MaxOther + 1}, OptionalSets("test"), OptionalSets("validation"),
                {[num |-> 0, den |-> 1]})

NextControl ==
    \/ MinibatchServes
    \/ NextEpoch
    \/ NormalizeControl

SpecControl == InitControl /\ [][NextControl]_vars

(***************************************************************************)
(* Construction from leaves of any lengths (lines 111-142): built is the   *)
(* Dataset the call returned, None while there is none.                    *)
(***************************************************************************)
\* two input leaves and one target leaf of ns[1], ns[2] and ns[3] rows
RaggedSet(src, ns) ==
    [inputs |-> <<Array(src, "inputs0", ns[1]), Array(src, "inputs1", ns[2])>>,
     targets |-> <<Array(src, "targets0", ns[3])>>]

LeafLengths == [1..3 -> 1..MaxRows]

OptionalRaggedSets(src) == {None} \cup {Some(RaggedSet(src, ns)) : ns \in LeafLengths}

\* the checks of lines 117, 133 and 141: the constructor raises ValueError
init_raises(a) ==
    \/ ~has_same_batch(a.inputs \o a.targets)
    \/ /\ a.test_inputs /= None
       /\ ~has_same_batch(a.test_inputs[1] \o a.test_targets[1])
    \/ /\ a.validation_inputs /= None
       /\ ~has_same_batch(a.validation_inputs[1] \o a.validation_targets[1])

\* the arguments of a construction that has not run yet, next to a Dataset
\* built earlier
InitShapes ==
    /\ gen = NewGenerator(1, 1, 1, FALSE, FALSE)
    /\ \E ns \in LeafLengths, test \in OptionalRaggedSets("test"),
          validation \in OptionalRaggedSets("validation") :
         args = Args(RaggedSet("train", ns).inputs, RaggedSet("train", ns).targets,
                     test, validation, DefaultTrainFrac)
    /\ dataset \in WholeDataset("earlier", 1)
    /\ copied = None
    /\ call = NoCall
    /\ raised = FALSE
    /\ served = <<>>
    /\ ret = None
    /\ rng = NoRng
    /\ seed = None
    /\ built = None
    /\ multi = <<>>

\* Dataset(**args) raising at line 118, 134 or 142
ConstructRaises ==
    /\ call = NoCall
    /\ init_raises(args)
    /\ built' = None
    /\ raised' = TRUE
    /\ call' = Called("__init__", 0, FALSE)
    /\ UNCHANGED <<gen, args, dataset, copied, served, ret, rng, seed, multi>>

\* Dataset(**args) returning a Dataset
ConstructReturns ==
    /\ call = NoCall
    /\ ~init_raises(args)
    /\ \E d \in Dataset(args) : built' = Some(d)
    /\ raised' = FALSE
    /\ call' = Called("__init__", 0, TRUE)
    /\ UNCHANGED <<gen, args, dataset, copied, served, ret, rng, seed, multi>>

NextShapes ==
    \/ ConstructRaises
    \/ ConstructReturns

SpecShapes == InitShapes /\ [][NextShapes]_vars

(***************************************************************************)
(* The batch minibatch returns (lines 410-413): ret holds the (inputs,     *)
(* targets) pair the last successful call handed to its caller.            *)
(***************************************************************************)
minibatch_batch_unpermuted(self) ==
    LET upto == self.minibatch_idx
        from == upto - Len(self._minibatch_indicies[1])
        idx == PySlice(arange(n_train_samples(self)), from, upto)
    IN  [inputs |-> take_all(self._train_inputs, idx),
         targets |-> take_all(self._train_targets, idx)]

\* lines 410-413, for self as lines 403-408 left it
minibatch_batch(self) ==
    LET idx == self._minibatch_indicies[1]
    IN  [inputs |-> take_all(self._train_inputs, idx),
         targets |-> take_all(self._train_targets, idx)]

\* minibatch(b) returning its batch to the caller
MinibatchReturns ==
    /\ \E b \in BatchSizes(dataset) : \E p \in EpochPerm(dataset, b) : Serve(b, p)
    /\ ret' = Some(minibatch_batch(dataset'))
    /\ UNCHANGED served

InitBatches ==
    Constructed(1..MaxInputs, {None}, {None}, {[num |-> 0, den |-> 1], DefaultTrainFrac})

NextBatches ==
    \/ MinibatchRaises
    \/ MinibatchReturns
    \/ NextEpoch
    \/ Normalize

SpecBatches == InitBatches /\ [][NextBatches]_vars

(***************************************************************************)
(* Repeated normalization: normalize() called up to MaxRenormalize times,  *)
(* and the stored normalizer applied to data from outside.                 *)
(***************************************************************************)
\* the normalizer attribute called on data: the identity of line 174 until
\* normalize stored the closure of lines 329-335
apply_normalizer(normalizer, data) ==
    IF normalizer = None THEN data
    ELSE normalize_inputs(data, normalizer[1].mean, normalizer[1].std,
                          normalizer[1].control)

\* normalize() with its default arguments, once more
Renormalize ==
    /\ NormalizeDepth(dataset) < MaxRenormalize
    /\ dataset' = normalize(dataset, NoAxis, DefaultControl(dataset))
    /\ call' = Called("normalize", 0, FALSE)
    /\ raised' = FALSE
    /\ UNCHANGED <<gen, args, copied, served, ret, extra>>

NextRenormalize ==
    \/ Renormalize
    \/ UpdateStats
    \/ NextEpoch

SpecRenormalize == Init /\ [][NextRenormalize]_vars

(***************************************************************************)
(* Claims about batchify, checked under SpecBatchify.                      *)
(***************************************************************************)
CeilDiv(a, b) == (a + b - 1) \div b

\* C1: with n_epochs = 1 a finished run has yielded ceil(N/B) batches whose
\* sizes sum to N when cutoff is off, and floor(N/B) batches of exactly B
\* rows each when cutoff is on.
C1_SingleEpochBatches ==
    (gen.pc = "done" /\ gen.n_epochs = 1) =>
        IF gen.cutoff
        THEN /\ Len(gen.sizes) = gen.N \div gen.batchsize
             /\ \A i \in 1..Len(gen.sizes) : gen.sizes[i] = gen.batchsize
        ELSE /\ Len(gen.sizes) = CeilDiv(gen.N, gen.batchsize)
             /\ SumSeq(gen.sizes) = gen.N

\* a finished single-epoch run without cutoff that ended on a partial batch
C1_Witness ==
    /\ gen.pc = "done" /\ gen.n_epochs = 1 /\ ~gen.cutoff
    /\ gen.N = 3 /\ gen.batchsize = 2 /\ gen.sizes = <<2, 1>>

\* C4: with n_epochs unbounded (<= 0) or >= 2, every batch yielded by the
\* slice (line 57) or by the straddle (line 53), i.e. every batch other than
\* the terminating tail, has exactly batchsize rows, also for batchsize >= N.
C4_NonTailBatchesFull ==
    ((gen.n_epochs <= 0 \/ gen.n_epochs >= 2) /\ gen.pc \in {"yield53", "yield57"})
        => Len(gen.batch) = gen.batchsize

\* C5: with cutoff on, every batch yielded has exactly batchsize rows.
C5_CutoffOnlyCompleteBatches ==
    gen.cutoff => \A i \in 1..Len(gen.sizes) : gen.sizes[i] = gen.batchsize

\* C6: with n_epochs <= 0 the generator never returns: it is never done, the
\* next request always yields a batch (slice or straddle), and the cutoff
\* return that drops a partial batch is never taken.
C6_UnboundedNeverTerminates ==
    gen.n_epochs <= 0 =>
        /\ gen.pc \notin {"done", "yield45"}
        /\ Len(gen.sizes) < MaxBatches =>
             ENABLED (BatchifyYieldSlice \/ BatchifyYieldStraddle)
        /\ ~ENABLED BatchifyReturnCutoff
        /\ ~ENABLED BatchifyReturnExhausted

\* an unbounded run with cutoff on that has wrapped around an epoch boundary
C6_Witness ==
    /\ gen.n_epochs <= 0 /\ gen.cutoff /\ gen.shuffle
    /\ gen.pc = "yield53" /\ gen.epoch >= 1 /\ Len(gen.sizes) >= 4

(***************************************************************************)
(* Claims about Dataset.                                                   *)
(***************************************************************************)
Distinct(s) == \A i, j \in 1..Len(s) : s[i] = s[j] => i = j

Uniform(log, b) == \A k \in 1..Len(log) : Len(log[k]) = b

\* the minibatches logged in the current epoch, all of b rows with b dividing
\* n_train_samples, are the consecutive b-slices of train_perm: pairwise
\* disjoint, no more than n/b of them, and the n/b of them cover [0, n)
EpochInOrder ==
    LET n == n_train_samples(dataset)
    IN  \A b \in 1..n :
          (n % b = 0 /\ Uniform(served, b)) =>
            /\ Len(served) <= n \div b
            /\ dataset.minibatch_idx = Len(served) * b
            /\ \A k \in 1..Len(served) : Distinct(served[k])
            /\ \A i, j \in 1..Len(served) :
                 i /= j => Range(served[i]) \cap Range(served[j]) = {}
            /\ Len(served) = n \div b =>
                 UNION {Range(served[k]) : k \in 1..Len(served)} = 0..(n - 1)

\* a minibatch(b) call starts a new epoch only after a complete one
RolloverAfterFullEpoch ==
    LET n == n_train_samples(dataset)
        b == call'.arg
    IN  (call'.op = "minibatch" /\ call'.drew /\ b >= 1 /\ n % b = 0
           /\ Uniform(served, b))
          => Len(served) = n \div b

\* C2: minibatch(b) called repeatedly from the start of an epoch, b dividing
\* n_train_samples, serves pairwise disjoint batches that together are a
\* permutation of [0, n_train_samples), and the new epoch starts only on the
\* call after the last of them.
C2_EpochIsPermutation == []EpochInOrder /\ [][RolloverAfterFullEpoch]_vars

\* a complete epoch of three minibatches of one row each
C2_Witness ==
    /\ n_train_samples(dataset) = 3 /\ Len(served) = 3 /\ Uniform(served, 1)
    /\ call.op = "minibatch" /\ dataset.minibatch_idx = 3

CursorInRange ==
    0 <= dataset.minibatch_idx /\ dataset.minibatch_idx <= n_train_samples(dataset)

\* a serving call that would overflow serves from position 0 of the new epoch
OverflowResetsCursor ==
    (call'.op = "minibatch" /\ ~raised'
       /\ dataset.minibatch_idx + call'.arg > n_train_samples(dataset))
      => /\ call'.drew
         /\ dataset'.minibatch_idx = call'.arg

\* C3: after construction and any sequence of minibatch (served or raising),
\* next_epoch, normalize and update_stats calls, 0 <= minibatch_idx <=
\* n_train_samples; a minibatch call that would overflow starts a new epoch
\* with the cursor reset before it serves.
C3_CursorWithinBounds == []CursorInRange /\ [][OverflowResetsCursor]_vars

\* a rollover after a normalization, with the cursor at the end of the epoch
C3_Witness ==
    /\ call.op = "minibatch" /\ call.drew /\ ~raised
    /\ dataset.normalizer /= None
    /\ dataset.minibatch_idx = n_train_samples(dataset)
    /\ n_train_samples(dataset) >= 2

IsStrictlySorted(s) == \A i, j \in 1..Len(s) : i < j => s[i] < s[j]

\* r is num/den rounded to the nearest integer, a tie going to the even one
IsNearestEven(r, num, den) ==
    LET d == IF r * den >= num THEN r * den - num ELSE num - r * den
    IN  2 * d < den \/ (2 * d = den /\ r % 2 = 0)

RowsAre(data, src, idx) ==
    \A i \in 1..Len(data) :
        /\ data[i].rows = idx
        /\ data[i].src = src[i].src /\ data[i].leaf = src[i].leaf

\* C7: when the constructor splits (no validation_inputs, train_frac > 0),
\* train_idx and validation_idx are sorted, disjoint and partition
\* [0, n_inputs); len(train_idx) is round(n_inputs * train_frac) capped at
\* n_inputs; the sizes add up to n_inputs and the train and validation leaves
\* are the rows of inputs and targets at those indices.
C7_AutomaticSplitPartitions ==
    (args.validation_inputs = None /\ args.train_frac.num > 0) =>
        /\ dataset.train_idx /= None /\ dataset.validation_idx /= None
        /\ LET n_inputs == len(args.inputs[1])
               train_idx == dataset.train_idx[1]
               validation_idx == dataset.validation_idx[1]
           IN  /\ IsStrictlySorted(train_idx)
               /\ IsStrictlySorted(validation_idx)
               /\ Range(train_idx) \cap Range(validation_idx) = {}
               /\ Range(train_idx) \cup Range(validation_idx) = 0..(n_inputs - 1)
               /\ \E r \in 0..(2 * n_inputs) :
                    /\ IsNearestEven(r, n_inputs * args.train_frac.num, args.train_frac.den)
                    /\ Len(train_idx) = Min(r, n_inputs)
               /\ n_train_samples(dataset) + n_validation_samples(dataset) = n_inputs
               /\ RowsAre(dataset._train_inputs, args.inputs, train_idx)
               /\ RowsAre(dataset._train_targets, args.targets, train_idx)
               /\ RowsAre(dataset._validation_inputs[1], args.inputs, validation_idx)
               /\ RowsAre(dataset._validation_targets[1], args.targets, validation_idx)

\* three rows split in half: the tie 1.5 rounds to two training rows
C7_Witness ==
    /\ args.validation_inputs = None
    /\ args.train_frac = [num |-> 1, den |-> 2]
    /\ len(args.inputs[1]) = 3
    /\ Len(dataset.train_idx[1]) = 2 /\ Len(dataset.validation_idx[1]) = 1
    /\ call.op = "__init__"

\* C8: the Dataset copy() returned has the same training, validation and test
\* contents as the original at the time of the call, the same three sizes,
\* and no train/validation split of its own.
C8_CopyHasSameSets ==
    call.op = "copy" =>
        /\ ~raised /\ copied /= None
        /\ LET c == copied[1]
           IN
            /\ n_train_samples(c) = n_train_samples(dataset)
            /\ n_validation_samples(c) = n_validation_samples(dataset)
            /\ n_test_samples(c) = n_test_samples(dataset)
            /\ c._train_inputs = dataset._train_inputs
            /\ c._train_targets = dataset._train_targets
            /\ c._validation_inputs = dataset._validation_inputs
            /\ c._validation_targets = dataset._validation_targets
            /\ c._test_inputs = dataset._test_inputs
            /\ c._test_targets = dataset._test_targets
            /\ c.train_idx = None /\ c.validation_idx = None

\* C9: minibatch(batch_size) raises exactly when batch_size > n_train_samples,
\* and a raising call leaves the cursor, the permutation and
\* minibatch_indicies as they were.
C9_RaisesIffTooLarge ==
    [][call'.op = "minibatch" =>
         /\ raised' <=> call'.arg > n_train_samples(dataset)
         /\ raised' => dataset' = dataset]_vars

\* an oversized request made in the middle of an epoch
C9_Witness ==
    /\ call.op = "minibatch" /\ raised
    /\ call.arg = n_train_samples(dataset) + 1
    /\ dataset.minibatch_idx > 0 /\ dataset._minibatch_indicies /= None

\* the minibatch a serving call returned is one slice of the permutation in
\* force after the call, ending at the cursor
ServedFromOnePermutation ==
    (call'.op = "minibatch" /\ ~raised') =>
        dataset'._minibatch_indicies =
            Some(PySlice(dataset'.train_perm,
                         dataset'.minibatch_idx - call'.arg, dataset'.minibatch_idx))

\* on overflow the batch is the head of the permutation drawn by the call
OverflowServesHead ==
    (call'.op = "minibatch" /\ ~raised'
       /\ dataset.minibatch_idx + call'.arg > n_train_samples(dataset))
      => /\ Len(dataset'._minibatch_indicies[1]) = call'.arg
         /\ dataset'._minibatch_indicies = Some(PySlice(dataset'.train_perm, 0, call'.arg))
         /\ dataset'.minibatch_idx = call'.arg

\* C10: minibatch(b) with b <= n_train_samples and minibatch_idx + b >
\* n_train_samples discards the rest of the permutation: it returns the first
\* b entries of the newly drawn permutation and leaves the cursor at b; no
\* minibatch mixes indices of two permutations.
C10_RolloverDiscardsRemainder ==
    [][OverflowServesHead /\ ServedFromOnePermutation]_vars

\* a rollover: two rows were asked for when fewer than two of the three
\* were left in the permutation
C10_Witness ==
    /\ call.op = "minibatch" /\ call.drew /\ ~raised
    /\ n_train_samples(dataset) = 3 /\ call.arg = 2
    /\ dataset.minibatch_idx = 2

(***************************************************************************)
(* Claims about seeded construction, checked under SpecSeed.               *)
(***************************************************************************)
\* C11: when the constructor splits automatically and a seed other than None
\* is given, a second construction with the same inputs, train_frac and seed
\* has the same train_idx and validation_idx as the first, whatever state
\* the global generator was in before either construction.
C11_SplitDeterministicInSeed ==
    (built /= None /\ seed_is_not_none(seed)
     /\ splits(args.validation_inputs, args.train_frac)) =>
        /\ built[1].train_idx = dataset.train_idx
        /\ built[1].validation_idx = dataset.validation_idx

(***************************************************************************)
(* Claims about where the validation set comes from, checked under         *)
(* SpecProvenance.                                                         *)
(***************************************************************************)
\* C12: exactly one of three cases decides the validation set.  When
\* validation_inputs is supplied there is no split whatever train_frac is:
\* all of inputs is the training set and the supplied set is the validation
\* set.  When it is not supplied and train_frac > 0 the inputs are split.
\* When it is not supplied and train_frac <= 0 all of inputs is the training
\* set, validation_inputs is None and n_validation_samples is 0.
C12_ValidationProvenance ==
    LET n_inputs == len(args.inputs[1])
        supplied == args.validation_inputs /= None
        positive == args.train_frac.num > 0
        whole == /\ dataset.train_idx = None /\ dataset.validation_idx = None
                 /\ n_train_samples(dataset) = n_inputs
                 /\ RowsAre(dataset._train_inputs, args.inputs, arange(n_inputs))
                 /\ RowsAre(dataset._train_targets, args.targets, arange(n_inputs))
    IN  /\ supplied =>
            /\ whole
            /\ dataset._validation_inputs /= None
            /\ RowsAre(dataset._validation_inputs[1], args.validation_inputs[1],
                       args.validation_inputs[1][1].rows)
            /\ dataset._validation_targets = args.validation_targets
            /\ n_validation_samples(dataset) = len(args.validation_inputs[1][1])
        /\ (~supplied /\ positive) =>
            /\ dataset.train_idx /= None /\ dataset.validation_idx /= None
            /\ n_train_samples(dataset) = Len(dataset.train_idx[1])
            /\ n_validation_samples(dataset) = Len(dataset.validation_idx[1])
            /\ n_train_samples(dataset) + n_validation_samples(dataset) = n_inputs
        /\ (~supplied /\ ~positive) =>
            /\ whole
            /\ dataset._validation_inputs = None
            /\ dataset._validation_targets = None
            /\ n_validation_samples(dataset) = 0

\* a Dataset given a validation set together with a train_frac that would
\* have split its three rows, since normalized
C12_Witness ==
    /\ args.validation_inputs /= None
    /\ args.train_frac = [num |-> 1, den |-> 2]
    /\ len(args.inputs[1]) = 3
    /\ n_train_samples(dataset) = 3
    /\ call.op = "normalize"

(***************************************************************************)
(* Claims about MultiDataset, checked under SpecMulti.                     *)
(***************************************************************************)
\* the cursor, permutation and last indices of every held dataset
Cursors(datasets) ==
    [i \in 1..Len(datasets) |->
        <<datasets[i].minibatch_idx, datasets[i].train_perm,
          datasets[i]._minibatch_indicies>>]

MultiMinibatchAllOrNothing ==
    call'.op = "MultiDataset.minibatch" =>
        LET b == call'.arg
            smallest == CHOOSE m \in {n_train_samples(multi[i]) : i \in 1..Len(multi)} :
                            \A i \in 1..Len(multi) : m <= n_train_samples(multi[i])
        IN  /\ raised' <=> b > smallest
            /\ raised' => Cursors(multi') = Cursors(multi)
            /\ ~raised' =>
                 \A i \in 1..Len(multi) :
                    /\ multi'[i]._minibatch_indicies /= None
                    /\ Len(multi'[i]._minibatch_indicies[1]) = b
                    /\ multi'[i].minibatch_idx =
                          IF multi[i].minibatch_idx + b > n_train_samples(multi[i])
                          THEN b ELSE multi[i].minibatch_idx + b

\* C13: MultiDataset.n_train_samples is the smallest n_train_samples of the
\* held datasets; MultiDataset.minibatch(b) raises exactly when b exceeds it,
\* and then no held dataset's cursor, permutation or minibatch_indicies has
\* changed; otherwise every held dataset serves b rows and advances its own
\* cursor, each rolling over on its own.
C13_MultiMinibatchAllOrNothing ==
    /\ [](\A i \in 1..Len(multi) :
            multi_n_train_samples(multi) <= n_train_samples(multi[i]))
    /\ [](\E i \in 1..Len(multi) :
            multi_n_train_samples(multi) = n_train_samples(multi[i]))
    /\ [][MultiMinibatchAllOrNothing]_vars

\* both datasets served one row, the smaller one from a new epoch and the
\* larger one from the epoch it was in
C13_Witness ==
    /\ call.op = "MultiDataset.minibatch" /\ call.arg = 1 /\ ~raised
    /\ n_train_samples(multi[1]) = 1 /\ n_train_samples(multi[2]) = 2
    /\ multi[1].minibatch_idx = 1 /\ multi[2].minibatch_idx = 2

(***************************************************************************)
(* Claims about what normalize, minibatch and next_epoch change, checked   *)
(* under SpecControl.                                                      *)
(***************************************************************************)
\* the flags the last normalize call was given, as its closure holds them
ControlOf(self) == self.normalizer[1].control

\* the leaves of an optional set whose flag is false are the same arrays
UnflaggedKept(before, after, control) ==
    IF before = None THEN after = None
    ELSE /\ after /= None
         /\ Len(after[1]) = Len(before[1])
         /\ \A i \in 1..Len(before[1]) : ~control[i] => after[1][i] = before[1][i]

NormalizeKeepsUnflagged ==
    call'.op = "normalize" =>
        LET control == ControlOf(dataset')
        IN  /\ UnflaggedKept(Some(dataset._train_inputs), Some(dataset'._train_inputs),
                             control)
            /\ UnflaggedKept(dataset._test_inputs, dataset'._test_inputs, control)
            /\ UnflaggedKept(dataset._validation_inputs, dataset'._validation_inputs,
                             control)
            /\ dataset'._train_targets = dataset._train_targets
            /\ dataset'._test_targets = dataset._test_targets
            /\ dataset'._validation_targets = dataset._validation_targets
            /\ dataset'.minibatch_idx = dataset.minibatch_idx
            /\ dataset'.train_perm = dataset.train_perm
            /\ dataset'._minibatch_indicies = dataset._minibatch_indicies
            /\ dataset'.train_idx = dataset.train_idx
            /\ dataset'.validation_idx = dataset.validation_idx

\* C14: normalize(control=c) leaves unchanged every input leaf whose flag is
\* false, in the training, test and validation sets alike, every target leaf
\* of the three sets, the minibatch cursor, train_perm and
\* minibatch_indicies; only flagged input leaves, the statistics and the
\* normalizer change.
C14_NormalizeKeepsUnflagged == [][NormalizeKeepsUnflagged]_vars

\* normalize(control=[True, False]) called in the middle of an epoch on a
\* Dataset that has a test and a validation set
C14_Witness ==
    /\ call.op = "normalize"
    /\ ControlOf(dataset) = <<TRUE, FALSE>>
    /\ dataset.minibatch_idx = 1 /\ dataset._minibatch_indicies /= None
    /\ dataset._test_inputs /= None /\ dataset._validation_inputs /= None
    /\ Len(dataset._train_inputs[1].hist) = 1
    /\ dataset._train_inputs[2].hist = <<>>
    /\ Len(dataset._test_inputs[1][1].hist) = 1
    /\ dataset._test_inputs[1][2].hist = <<>>

ServingKeepsData ==
    call'.op \in {"minibatch", "next_epoch"} =>
        /\ [dataset' EXCEPT !.minibatch_idx = dataset.minibatch_idx,
                            !.train_perm = dataset.train_perm,
                            !._minibatch_indicies = dataset._minibatch_indicies]
             = dataset
        /\ call'.op = "next_epoch" =>
             dataset'._minibatch_indicies = dataset._minibatch_indicies

\* C15: minibatch and next_epoch change only the cursor, train_perm and (for
\* minibatch alone) minibatch_indicies: the training, validation and test
\* leaves, their number and order, the statistics and the normalizer are
\* what they were before the call.
C15_ServingKeepsData == [][ServingKeepsData]_vars

\* a minibatch that started a new epoch on a normalized Dataset holding a
\* test set
C15_Witness ==
    /\ call.op = "minibatch" /\ call.drew /\ call.arg >= 1
    /\ dataset.normalizer /= None
    /\ dataset._test_inputs /= None

\* the (mean, std) pair computed from the array x
StatsOf(pair, x) ==
    /\ pair.mu.stat = "mean" /\ pair.mu.of = x
    /\ pair.sigma.stat = "std" /\ pair.sigma.of = x
    /\ pair.mu.axis = pair.sigma.axis

\* every flagged leaf of an optional set was transformed once more, by the
\* statistics of the matching leaf of train
TransformedBy(before, after, control, train) ==
    before /= None =>
        \A i \in 1..Len(before[1]) :
            control[i] =>
                /\ Len(after[1][i].hist) = Len(before[1][i].hist) + 1
                /\ SubSeq(after[1][i].hist, 1, Len(before[1][i].hist))
                     = before[1][i].hist
                /\ StatsOf(after[1][i].hist[Len(after[1][i].hist)], train[i])
                /\ after[1][i].rows = before[1][i].rows

NormalizeUsesTrainingStatistics ==
    call'.op = "normalize" =>
        LET control == ControlOf(dataset')
            train == dataset._train_inputs
        IN  /\ TransformedBy(Some(train), Some(dataset'._train_inputs), control, train)
            /\ TransformedBy(dataset._test_inputs, dataset'._test_inputs, control, train)
            /\ TransformedBy(dataset._validation_inputs, dataset'._validation_inputs,
                             control, train)
            /\ \A i \in 1..Len(train) :
                 /\ dataset'._inputs_mean[i].stat = "mean"
                 /\ dataset'._inputs_mean[i].of = dataset'._train_inputs[i]
                 /\ dataset'._inputs_std[i].stat = "std"
                 /\ dataset'._inputs_std[i].of = dataset'._train_inputs[i]
                 /\ dataset'._inputs_stationary_mean[i].of = dataset'._train_inputs[i]
                 /\ dataset'._inputs_stationary_std[i].of = dataset'._train_inputs[i]

\* C20: normalize transforms the test and validation input leaves with the
\* per-leaf mean and std computed from the training inputs as they were at
\* the start of the call, never with statistics of the test or validation
\* data; the statistics exposed after the call are those of the transformed
\* training inputs.
C20_NormalizeUsesTrainingStatistics == [][NormalizeUsesTrainingStatistics]_vars

\* a Dataset with a test and a validation set after normalize() of both
\* leaves
C20_Witness ==
    /\ call.op = "normalize"
    /\ ControlOf(dataset) = <<TRUE, TRUE>>
    /\ dataset._test_inputs /= None /\ dataset._validation_inputs /= None
    /\ dataset._test_inputs[1][1].hist[1].mu.of.src = "train"
    /\ dataset._validation_inputs[1][2].hist[1].sigma.of.src = "train"
    /\ dataset._inputs_mean[1].of.hist /= <<>>

(***************************************************************************)
(* Claims about the constructor's checks, checked under SpecShapes.        *)
(***************************************************************************)
\* the leaves of data do not all have the same number of rows
Ragged(data) == Cardinality({Len(data[i].rows) : i \in 1..Len(data)}) > 1

\* C16: construction fails whenever the leaves of inputs and targets do not
\* all share one first-dimension length, or a test set is supplied whose
\* leaves do not, or a validation set is supplied whose leaves do not; a
\* failed construction leaves no Dataset object.
C16_RaggedLeavesRejected ==
    call.op = "__init__" =>
        /\ ( \/ Ragged(args.inputs \o args.targets)
             \/ /\ args.test_inputs /= None
                /\ Ragged(args.test_inputs[1] \o args.test_targets[1])
             \/ /\ args.validation_inputs /= None
                /\ Ragged(args.validation_inputs[1] \o args.validation_targets[1]) )
           => raised
        /\ raised => built = None

\* a construction rejected for its validation set alone: the target leaf of
\* the validation set is longer than its input leaves
C16_Witness ==
    /\ call.op = "__init__" /\ raised /\ built = None
    /\ ~Ragged(args.inputs \o args.targets)
    /\ args.test_inputs /= None /\ ~Ragged(args.test_inputs[1] \o args.test_targets[1])
    /\ args.validation_inputs /= None
    /\ ~Ragged(args.validation_inputs[1])
    /\ len(args.validation_targets[1][1]) > len(args.validation_inputs[1][1])

(***************************************************************************)
(* Claims about the epochs of batchify, checked under SpecBatchify.        *)
(***************************************************************************)
\* the number of indices the straddling batch just yielded took from the
\* head of the new permutation: the batch without the tail of the old one
TakenFromHead(g) ==
    Len(g.batch) - (IF g.pos < g.N THEN g.N - g.pos ELSE 0)

\* C17: with n_epochs = E >= 1 and cutoff off, batchify ends after finitely
\* many batches having yielded every sample index exactly E times: no index
\* is yielded more than E times on the way, a finished run has yielded each
\* exactly E times, pos after a straddling batch is the number of indices
\* that batch took from the head of the new permutation, and no batch is
\* empty.
C17_EveryIndexEveryEpoch ==
    (gen.n_epochs >= 1 /\ ~gen.cutoff) =>
        /\ \A i \in 1..gen.N : gen.count[i] <= gen.n_epochs
        /\ gen.pc = "done" => \A i \in 1..gen.N : gen.count[i] = gen.n_epochs
        /\ Len(gen.sizes) <= gen.N * gen.n_epochs
        /\ \A k \in 1..Len(gen.sizes) : gen.sizes[k] >= 1
        /\ gen.pc = "yield53" => Resume(gen, gen.perm).pos = TakenFromHead(gen)
        /\ (gen.pc /= "done" /\ Len(gen.sizes) < MaxBatches) => ENABLED BatchifyNext

(***************************************************************************)
(* Claims about the batch minibatch returns, checked under SpecBatches.    *)
(***************************************************************************)
\* every leaf of batch has Len(idx) rows, row k being row idx[k] of the
\* matching leaf of data
RowsGathered(batch, data, idx) ==
    /\ Len(batch) = Len(data)
    /\ \A i \in 1..Len(data) :
         /\ Len(batch[i].rows) = Len(idx)
         /\ \A k \in 1..Len(idx) : batch[i].rows[k] = data[i].rows[idx[k] + 1]
         /\ batch[i].src = data[i].src /\ batch[i].leaf = data[i].leaf
         /\ batch[i].hist = data[i].hist

\* C18: every successful minibatch(b) returns exactly b rows in every input
\* leaf and every target leaf, row k being training row
\* minibatch_indicies[k]; the b indices are pairwise distinct members of
\* [0, n_train_samples); and minibatch_indicies is the slice of train_perm
\* the call just served.
C18_BatchIsRowsOfIndices ==
    (call.op = "minibatch" /\ ~raised) =>
        /\ ret /= None /\ dataset._minibatch_indicies /= None
        /\ LET b == call.arg
               idx == dataset._minibatch_indicies[1]
           IN  /\ Len(idx) = b
               /\ RowsGathered(ret[1].inputs, dataset._train_inputs, idx)
               /\ RowsGathered(ret[1].targets, dataset._train_targets, idx)
               /\ Distinct(idx)
               /\ Range(idx) \subseteq 0..(n_train_samples(dataset) - 1)
               /\ dataset.minibatch_idx >= b
               /\ idx = SubSeq(dataset.train_perm, dataset.minibatch_idx - b + 1,
                               dataset.minibatch_idx)

\* two rows served from the middle of a shuffled epoch of a normalized
\* Dataset, the later row first
C18_Witness ==
    /\ call.op = "minibatch" /\ ~raised /\ call.arg = 2
    /\ dataset.minibatch_idx = 3
    /\ dataset._minibatch_indicies[1][1] > dataset._minibatch_indicies[1][2]
    /\ dataset.normalizer /= None
    /\ Len(ret[1].inputs[2].rows) = 2 /\ Len(ret[1].targets[1].rows) = 2

(***************************************************************************)
(* Claims about the stored normalizer, checked under SpecRenormalize.      *)
(***************************************************************************)
\* the training inputs as they were before any normalization
RawTrainInputs(self) ==
    [i \in 1..Len(self._train_inputs) |-> [self._train_inputs[i] EXCEPT !.hist = <<>>]]

\* C19: after any number k >= 1 of normalize() calls with the default
\* control, the stored normalizer applied to the original training inputs,
\* as they were before the first call, yields the current training inputs.
C19_NormalizerMapsRawToCurrent ==
    NormalizeDepth(dataset) >= 1 =>
        apply_normalizer(dataset.normalizer, RawTrainInputs(dataset))
            = dataset._train_inputs

====
